---- MODULE Spec2Model ----
(***************************************************************************)
(* nus-terminal: a terminal bridge to a BLE peripheral exposing the Nordic *)
(* UART Service.  The model follows src/main.rs: `main` is one sequential  *)
(* process (pc is its position, named after the statement it is about to   *)
(* execute), the tasks it hands to tokio::spawn are concurrent processes,  *)
(* and the BLE transport and the terminal are the environment.             *)
(***************************************************************************)
EXTENDS Integers, Sequences, FiniteSets, TLC

VARIABLES
    pc,            \* position of main
    exit_code,     \* NotExited while the process runs, then its exit status
    error,         \* the message the process ends with ("" when none)
    args_name,     \* args.name, the --name filter
    adapters,      \* number of adapters manager.adapters() returned
    peripherals,   \* what central.peripherals() returned
    peripheral,    \* the element `find` selected, or NoPeripheral
    calls,         \* per method of `peripheral`: "none" (not called), "ok", "err"
    chars,         \* peripheral.characteristics() after discovery
    rx_char,       \* TRUE once the RX characteristic is resolved
    tx_char,       \* TRUE once the TX characteristic is resolved
    raw_mode,      \* the terminal is in raw mode
    alt_screen,    \* the terminal shows the alternate screen
    tasks,         \* the send tasks spawned so far, in spawn order
    wire,          \* indices of `tasks` whose write reached the device, in order
    relay,         \* the notification relay task: "none", "running", "ended"
    delivered,     \* every payload the transport put on notif_stream, in order
    notif_stream,  \* the payloads on notif_stream the relay has not taken yet
    display,       \* the chunks printed to stdout, in order
    keys,          \* every terminal event event::read() returned, in order
    key_event,     \* the key event of the current loop iteration, or NoEvent
    data           \* the `data` of the current loop iteration

vars == <<pc, exit_code, error, args_name, adapters, peripherals, peripheral,
          calls, chars, rx_char, tx_char, raw_mode, alt_screen, tasks, wire,
          relay, delivered, notif_stream, display, keys, key_event, data>>

----------------------------------------------------------------------------
\* Bounds of the model.

MaxScan == 2        \* peripherals seen in one scan window
MaxNameLen == 2     \* length of an advertised name and of the filter
MaxKeys == 2        \* terminal events read in one session
MaxNotif == 2       \* notifications delivered in one session

Alphabet == {"a", "b"}

\* All sequences over S of length at most n.
RECURSIVE SeqsUpTo(_, _)
SeqsUpTo(S, n) ==
    IF n = 0 THEN {<<>>}
    ELSE LET shorter == SeqsUpTo(S, n - 1)
         IN  shorter \cup {Append(s, x) : s \in shorter, x \in S}

Names == SeqsUpTo(Alphabet, MaxNameLen)

----------------------------------------------------------------------------
\* Process outcome.

NotExited == -1
EXIT_SUCCESS == 0
EXIT_FAILURE == 1
EXIT_PANIC == 101

----------------------------------------------------------------------------
\* The Nordic UART Service characteristics.

NUS_RX_CHAR_UUID == "6e400002-b5a3-f393-e0a9-e50e24dcca9e"
NUS_TX_CHAR_UUID == "6e400003-b5a3-f393-e0a9-e50e24dcca9e"
OTHER_CHAR_UUID == "00002a00-0000-1000-8000-00805f9b34fb"

CharSets == SUBSET {NUS_RX_CHAR_UUID, NUS_TX_CHAR_UUID, OTHER_CHAR_UUID}

----------------------------------------------------------------------------
\* The Device Locator.

\* What p.properties() gives for one scanned peripheral:
\*   "err"    Err(_)
\*   "none"   Ok(None)
\*   "anon"   Ok(Some(props)) with props.local_name = None
\*   "named"  Ok(Some(props)) with props.local_name = Some(name)
PropKinds == {"err", "none", "anon", "named"}

Candidates ==
    {[props |-> k, name |-> <<>>] : k \in {"err", "none", "anon"}}
        \cup {[props |-> "named", name |-> n] : n \in Names}

\* A scanned peripheral is a candidate with the address that identifies it.
Scans ==
    UNION {[1..n -> Candidates] : n \in 0..MaxScan}

NoPeripheral == [addr |-> 0, props |-> "none", name |-> <<>>]

\* str::contains: `pat` occurs in `s` as a contiguous substring.
Contains(s, pat) ==
    \E i \in 0..(Len(s) - Len(pat)) : SubSeq(s, i + 1, i + Len(pat)) = pat

\* The closure handed to `find`.
MatchesName(p, filter) ==
    IF p.props = "named" THEN Contains(p.name, filter) ELSE FALSE

\* Fault: the search gives up at a candidate whose properties() is no
\* Ok(Some(_)) or whose local_name is None.
RECURSIVE FindFromStopOnUnnamed(_, _, _)
FindFromStopOnUnnamed(ps, filter, i) ==
    IF i > Len(ps) THEN 0
    ELSE IF ps[i].props # "named" THEN 0
    ELSE IF MatchesName(ps[i], filter) THEN i
    ELSE FindFromStopOnUnnamed(ps, filter, i + 1)

\* Iterator::find: the index of the first element from `i` on that satisfies
\* the closure, 0 when there is none.
RECURSIVE FindFrom(_, _, _)
FindFrom(ps, filter, i) ==
    IF i > Len(ps) THEN 0
    ELSE IF MatchesName(ps[i], filter) THEN i
    ELSE FindFrom(ps, filter, i + 1)

\* Fault: `rfind` for `find`, the last match instead of the first.
RECURSIVE FindBackFrom(_, _, _)
FindBackFrom(ps, filter, i) ==
    IF i = 0 THEN 0
    ELSE IF MatchesName(ps[i], filter) THEN i
    ELSE FindBackFrom(ps, filter, i - 1)

FindLast(ps, filter) == FindBackFrom(ps, filter, Len(ps))

\* Fault: when nothing matches, fall back to the first peripheral scanned.
FindOrFirst(ps, filter) ==
    LET i == FindFrom(ps, filter, 1)
    IN  IF i = 0 /\ Len(ps) > 0 THEN 1 ELSE i

Find(ps, filter) == FindFrom(ps, filter, 1)

----------------------------------------------------------------------------
\* The Input Encoder.

Modifiers == {"SHIFT", "CONTROL", "ALT"}

KeyCodes == {"Esc", "Backspace", "Char", "Left", "Right", "Up", "Down",
             "Enter", "Tab", "F1", "Home", "Delete"}

ArrowCodes == {"Left", "Right", "Up", "Down"}

\* Code points of the characters a Char key event may carry: printable ASCII,
\* and some characters beyond ASCII ("e" acute, "s" caron, the euro sign).
PrintableAscii == 32..126
Chars == PrintableAscii \cup {233, 353, 8364}

\* crossterm's KeyEvent: `ch` is the character of a Char code, 0 otherwise.
KeyEvent(code, ch, mods) ==
    [kind |-> "Key", code |-> code, ch |-> ch, modifiers |-> mods]

\* A terminal event that is no key event (resize, mouse, focus, paste).
OtherEvent(kind) ==
    [kind |-> kind, code |-> "Null", ch |-> 0, modifiers |-> {}]

NoEvent == OtherEvent("None")

KeyEvents ==
    {KeyEvent("Char", c, m) : c \in Chars, m \in SUBSET Modifiers}
        \cup {KeyEvent(k, 0, m) : k \in KeyCodes \ {"Char"}, m \in SUBSET Modifiers}

\* Option<Vec<u8>>
None == [some |-> FALSE, bytes |-> <<>>]
Some(bytes) == [some |-> TRUE, bytes |-> bytes]

\* `c as u8`: the low 8 bits of the code point.
AsU8(c) == c % 256

\* Bitwise and of two naturals.
RECURSIVE BitAnd(_, _)
BitAnd(x, y) ==
    IF x = 0 \/ y = 0 THEN 0
    ELSE (x % 2) * (y % 2) + 2 * BitAnd(x \div 2, y \div 2)

ESC == 27           \* 0x1b
LBRACKET == 91      \* '['
BS == 8             \* 0x08
CR == 13            \* '\r'
LF == 10            \* '\n'
HT == 9             \* '\t'
CTRL_MASK == 31     \* 0x1F
CTRL_L == 12        \* 'l' as u8 & 0x1F
LOWER_L == 108      \* 'l'
UPPER_A == 65       \* 'A'
UPPER_B == 66       \* 'B'
UPPER_C == 67       \* 'C'
UPPER_D == 68       \* 'D'

\* Fault: the mask applied whenever any modifier is held.
CharByteAnyModifier(c, mods) ==
    IF mods # {} THEN BitAnd(AsU8(c), CTRL_MASK) ELSE AsU8(c)

\* The Char arm of the match.
CharByte(c, mods) ==
    IF "CONTROL" \in mods THEN BitAnd(AsU8(c), CTRL_MASK) ELSE AsU8(c)

\* Fault: the final bytes of Left and Right exchanged.
KeyDataLeftRightSwapped(ev) ==
    CASE ev.code = "Backspace" -> Some(<<BS>>)
      [] ev.code = "Char"      -> Some(<<CharByte(ev.ch, ev.modifiers)>>)
      [] ev.code = "Left"      -> Some(<<ESC, LBRACKET, UPPER_C>>)
      [] ev.code = "Right"     -> Some(<<ESC, LBRACKET, UPPER_D>>)
      [] ev.code = "Up"        -> Some(<<ESC, LBRACKET, UPPER_A>>)
      [] ev.code = "Down"      -> Some(<<ESC, LBRACKET, UPPER_B>>)
      [] ev.code = "Enter"     -> Some(<<CR>>)
      [] ev.code = "Tab"       -> Some(<<HT>>)
      [] OTHER                 -> None

\* Fault: Enter sends a line feed.
KeyDataEnterLineFeed(ev) ==
    CASE ev.code = "Backspace" -> Some(<<BS>>)
      [] ev.code = "Char"      -> Some(<<CharByte(ev.ch, ev.modifiers)>>)
      [] ev.code = "Left"      -> Some(<<ESC, LBRACKET, UPPER_D>>)
      [] ev.code = "Right"     -> Some(<<ESC, LBRACKET, UPPER_C>>)
      [] ev.code = "Up"        -> Some(<<ESC, LBRACKET, UPPER_A>>)
      [] ev.code = "Down"      -> Some(<<ESC, LBRACKET, UPPER_B>>)
      [] ev.code = "Enter"     -> Some(<<LF>>)
      [] ev.code = "Tab"       -> Some(<<HT>>)
      [] OTHER                 -> None

\* Fault: a key without an entry is sent as a NUL byte.
KeyDataOtherSendsNul(ev) ==
    CASE ev.code = "Backspace" -> Some(<<BS>>)
      [] ev.code = "Char"      -> Some(<<CharByte(ev.ch, ev.modifiers)>>)
      [] ev.code = "Left"      -> Some(<<ESC, LBRACKET, UPPER_D>>)
      [] ev.code = "Right"     -> Some(<<ESC, LBRACKET, UPPER_C>>)
      [] ev.code = "Up"        -> Some(<<ESC, LBRACKET, UPPER_A>>)
      [] ev.code = "Down"      -> Some(<<ESC, LBRACKET, UPPER_B>>)
      [] ev.code = "Enter"     -> Some(<<CR>>)
      [] ev.code = "Tab"       -> Some(<<HT>>)
      [] OTHER                 -> Some(<<0>>)

\* The match on key_event.code, for every code but Esc (which breaks out of
\* the loop instead of producing a value).
KeyData(ev) ==
    CASE ev.code = "Backspace" -> Some(<<BS>>)
      [] ev.code = "Char"      -> Some(<<CharByte(ev.ch, ev.modifiers)>>)
      [] ev.code = "Left"      -> Some(<<ESC, LBRACKET, UPPER_D>>)
      [] ev.code = "Right"     -> Some(<<ESC, LBRACKET, UPPER_C>>)
      [] ev.code = "Up"        -> Some(<<ESC, LBRACKET, UPPER_A>>)
      [] ev.code = "Down"      -> Some(<<ESC, LBRACKET, UPPER_B>>)
      [] ev.code = "Enter"     -> Some(<<CR>>)
      [] ev.code = "Tab"       -> Some(<<HT>>)
      [] OTHER                 -> None

----------------------------------------------------------------------------
\* String::from_utf8_lossy: the code points of the decoded text, every
\* maximal invalid part replaced by one U+FFFD.

REPLACEMENT == 65533    \* U+FFFD

Utf8CharWidth(b) ==
    IF b < 128 THEN 1
    ELSE IF b \in 194..223 THEN 2
    ELSE IF b \in 224..239 THEN 3
    ELSE IF b \in 240..244 THEN 4
    ELSE 0

SafeGet(v, i) == IF i <= Len(v) THEN v[i] ELSE 0

IsCont(b) == b \in 128..191

\* The second byte a three-byte lead admits.
Second3(b0, b1) ==
    \/ b0 = 224 /\ b1 \in 160..191
    \/ b0 \in 225..236 /\ b1 \in 128..191
    \/ b0 = 237 /\ b1 \in 128..159
    \/ b0 \in 238..239 /\ b1 \in 128..191

\* The second byte a four-byte lead admits.
Second4(b0, b1) ==
    \/ b0 = 240 /\ b1 \in 144..191
    \/ b0 \in 241..243 /\ b1 \in 128..191
    \/ b0 = 244 /\ b1 \in 128..143

\* One step of the decoder at index i: the code point it yields and the index
\* it goes on from.
DecodeAt(v, i) ==
    LET b0 == v[i]
        b1 == SafeGet(v, i + 1)
        b2 == SafeGet(v, i + 2)
        b3 == SafeGet(v, i + 3)
        w  == Utf8CharWidth(b0)
        Bad(n) == [next |-> i + n, cp |-> REPLACEMENT]
    IN  CASE w = 1 -> [next |-> i + 1, cp |-> b0]
          [] w = 2 ->
                IF ~IsCont(b1) THEN Bad(1)
                ELSE [next |-> i + 2, cp |-> (b0 - 192) * 64 + (b1 - 128)]
          [] w = 3 ->
                IF ~Second3(b0, b1) THEN Bad(1)
                ELSE IF ~IsCont(b2) THEN Bad(2)
                ELSE [next |-> i + 3,
                      cp |-> (b0 - 224) * 4096 + (b1 - 128) * 64 + (b2 - 128)]
          [] w = 4 ->
                IF ~Second4(b0, b1) THEN Bad(1)
                ELSE IF ~IsCont(b2) THEN Bad(2)
                ELSE IF ~IsCont(b3) THEN Bad(3)
                ELSE [next |-> i + 4,
                      cp |-> (b0 - 240) * 262144 + (b1 - 128) * 4096
                             + (b2 - 128) * 64 + (b3 - 128)]
          [] OTHER -> Bad(1)

RECURSIVE LossyFrom(_, _)
LossyFrom(v, i) ==
    IF i > Len(v) THEN <<>>
    ELSE LET d == DecodeAt(v, i) IN <<d.cp>> \o LossyFrom(v, d.next)

FromUtf8Lossy(v) == LossyFrom(v, 1)

----------------------------------------------------------------------------
\* The inputs of one session (specification Spec): the filter, what the scan
\* may return, the terminal events and the notification payloads.

SessionName == <<"a">>

Named(n) == [props |-> "named", name |-> n]

SessionScans ==
    { <<>>,
      <<Named(<<"b">>)>>,
      <<Named(<<"b">>), Named(<<"b", "a">>)>> }

SessionEvents ==
    { KeyEvent("Esc", 0, {}),
      KeyEvent("Char", 97, {}),         \* "a"
      KeyEvent("Left", 0, {"CONTROL"}),
      KeyEvent("F1", 0, {}),
      OtherEvent("Resize") }

\* "e" acute in UTF-8 followed by the first byte of a second one, and the
\* byte that would complete it.
SessionPayloads == { <<195, 169, 195>>, <<169>> }

----------------------------------------------------------------------------
\* main, lines 29-146.

Running == exit_code = NotExited

\* The process ends: `?` returns Err from main (EXIT_FAILURE), expect/unwrap
\* panic (EXIT_PANIC), Ok(()) is EXIT_SUCCESS.  The runtime is dropped with
\* main's return value, and every spawned task with it.
Exit(code, msg) ==
    /\ pc' = "exited"
    /\ exit_code' = code
    /\ error' = msg

Goto(label) ==
    /\ pc' = label
    /\ UNCHANGED <<exit_code, error>>

\* Either the call succeeds and main goes on at `label`, or `?` returns its
\* error.
Try(label, msg) ==
    \/ Goto(label)
    \/ Exit(EXIT_FAILURE, msg)

\* The methods of `peripheral` main awaits during setup.
Methods == {"connect", "discover_services", "subscribe", "notifications"}

Called(method, result) == calls' = [calls EXCEPT ![method] = result]

Init0 ==
    /\ pc = "manager_new"
    /\ exit_code = NotExited
    /\ error = ""
    /\ adapters = 0
    /\ peripherals = <<>>
    /\ peripheral = NoPeripheral
    /\ calls = [m \in Methods |-> "none"]
    /\ chars = {}
    /\ rx_char = FALSE
    /\ tx_char = FALSE
    /\ raw_mode = FALSE
    /\ alt_screen = FALSE
    /\ tasks = <<>>
    /\ wire = <<>>
    /\ relay = "none"
    /\ delivered = <<>>
    /\ notif_stream = <<>>
    /\ display = <<>>
    /\ keys = <<>>
    /\ key_event = NoEvent
    /\ data = None

Init ==
    /\ Init0
    /\ args_name = SessionName

\* Manager::new().await?
ManagerNew ==
    /\ pc = "manager_new"
    /\ Try("adapters", "manager error")
    /\ UNCHANGED <<args_name, adapters, peripherals, peripheral, calls, chars,
                   rx_char, tx_char, raw_mode, alt_screen, tasks, wire, relay,
                   delivered, notif_stream, display, keys, key_event, data>>

\* manager.adapters().await?
Adapters ==
    /\ pc = "adapters"
    /\ \/ \E n \in 0..2 : adapters' = n /\ Goto("first")
       \/ adapters' = adapters /\ Exit(EXIT_FAILURE, "adapters error")
    /\ UNCHANGED <<args_name, peripherals, peripheral, calls, chars,
                   rx_char, tx_char, raw_mode, alt_screen, tasks, wire, relay,
                   delivered, notif_stream, display, keys, key_event, data>>

\* adapters.first().ok_or(anyhow!("No bluetooth adapter found"))?
First ==
    /\ pc = "first"
    /\ IF adapters = 0
         THEN Exit(EXIT_FAILURE, "No bluetooth adapter found")
         ELSE Goto("start_scan")
    /\ UNCHANGED <<args_name, adapters, peripherals, peripheral, calls, chars,
                   rx_char, tx_char, raw_mode, alt_screen, tasks, wire, relay,
                   delivered, notif_stream, display, keys, key_event, data>>

\* central.start_scan(ScanFilter::default()).await?
StartScan ==
    /\ pc = "start_scan"
    /\ Try("sleep", "start_scan error")
    /\ UNCHANGED <<args_name, adapters, peripherals, peripheral, calls, chars,
                   rx_char, tx_char, raw_mode, alt_screen, tasks, wire, relay,
                   delivered, notif_stream, display, keys, key_event, data>>

\* tokio::time::sleep(Duration::from_secs(5)).await
Sleep ==
    /\ pc = "sleep"
    /\ Goto("peripherals")
    /\ UNCHANGED <<args_name, adapters, peripherals, peripheral, calls, chars,
                   rx_char, tx_char, raw_mode, alt_screen, tasks, wire, relay,
                   delivered, notif_stream, display, keys, key_event, data>>

\* central.peripherals().await?, the scan having seen one of `scans`.
Peripherals(scans) ==
    /\ pc = "peripherals"
    /\ \/ \E ps \in scans : peripherals' = ps /\ Goto("find")
       \/ peripherals' = peripherals /\ Exit(EXIT_FAILURE, "peripherals error")
    /\ UNCHANGED <<args_name, adapters, peripheral, calls, chars,
                   rx_char, tx_char, raw_mode, alt_screen, tasks, wire, relay,
                   delivered, notif_stream, display, keys, key_event, data>>

\* peripherals.into_iter().find(..).ok_or(anyhow!(..))?
FindPeripheral ==
    /\ pc = "find"
    /\ LET i == Find(peripherals, args_name)
       IN  IF i = 0
             THEN /\ Exit(EXIT_FAILURE, "Could not find a device with given name")
                  /\ peripheral' = peripheral
             ELSE /\ Goto("connect")
                  /\ peripheral' = [addr |-> i,
                                    props |-> peripherals[i].props,
                                    name |-> peripherals[i].name]
    /\ UNCHANGED <<args_name, adapters, peripherals, calls, chars,
                   rx_char, tx_char, raw_mode, alt_screen, tasks, wire, relay,
                   delivered, notif_stream, display, keys, key_event, data>>

\* peripheral.connect().await?
Connect ==
    /\ pc = "connect"
    /\ \/ Called("connect", "ok") /\ Goto("discover_services")
       \/ Called("connect", "err") /\ Exit(EXIT_FAILURE, "connect error")
    /\ UNCHANGED <<args_name, adapters, peripherals, peripheral, chars,
                   rx_char, tx_char, raw_mode, alt_screen, tasks, wire, relay,
                   delivered, notif_stream, display, keys, key_event, data>>

\* peripheral.discover_services().await?; let chars = peripheral.characteristics()
DiscoverServices ==
    /\ pc = "discover_services"
    /\ \/ /\ Called("discover_services", "ok")
          /\ \E cs \in CharSets : chars' = cs
          /\ Goto("rx_char")
       \/ /\ Called("discover_services", "err")
          /\ chars' = chars
          /\ Exit(EXIT_FAILURE, "discover_services error")
    /\ UNCHANGED <<args_name, adapters, peripherals, peripheral,
                   rx_char, tx_char, raw_mode, alt_screen, tasks, wire, relay,
                   delivered, notif_stream, display, keys, key_event, data>>

\* chars.iter().find(|c| c.uuid == NUS_RX_CHAR_UUID).expect(..)
ResolveRx ==
    /\ pc = "rx_char"
    /\ IF NUS_RX_CHAR_UUID \in chars
         THEN rx_char' = TRUE /\ Goto("tx_char")
         ELSE rx_char' = rx_char /\ Exit(EXIT_PANIC, "RX characteristic not found")
    /\ UNCHANGED <<args_name, adapters, peripherals, peripheral, calls, chars,
                   tx_char, raw_mode, alt_screen, tasks, wire, relay,
                   delivered, notif_stream, display, keys, key_event, data>>

\* Fault: a missing TX characteristic is not noticed here.
ResolveTxUnchecked ==
    /\ pc = "tx_char"
    /\ tx_char' = (NUS_TX_CHAR_UUID \in chars)
    /\ Goto("subscribe")
    /\ UNCHANGED <<args_name, adapters, peripherals, peripheral, calls, chars,
                   rx_char, raw_mode, alt_screen, tasks, wire, relay,
                   delivered, notif_stream, display, keys, key_event, data>>

\* chars.iter().find(|c| c.uuid == NUS_TX_CHAR_UUID).expect(..)
ResolveTx ==
    /\ pc = "tx_char"
    /\ IF NUS_TX_CHAR_UUID \in chars
         THEN tx_char' = TRUE /\ Goto("subscribe")
         ELSE tx_char' = tx_char /\ Exit(EXIT_PANIC, "TX characteristic not found")
    /\ UNCHANGED <<args_name, adapters, peripherals, peripheral, calls, chars,
                   rx_char, raw_mode, alt_screen, tasks, wire, relay,
                   delivered, notif_stream, display, keys, key_event, data>>

\* Fault: `let _ = peripheral.subscribe(&tx_char).await;`, the error dropped.
SubscribeIgnoringError ==
    /\ pc = "subscribe"
    /\ \E r \in {"ok", "err"} : Called("subscribe", r)
    /\ Goto("notifications")
    /\ UNCHANGED <<args_name, adapters, peripherals, peripheral, chars,
                   rx_char, tx_char, raw_mode, alt_screen, tasks, wire, relay,
                   delivered, notif_stream, display, keys, key_event, data>>

\* peripheral.subscribe(&tx_char).await?
Subscribe ==
    /\ pc = "subscribe"
    /\ \/ Called("subscribe", "ok") /\ Goto("notifications")
       \/ Called("subscribe", "err") /\ Exit(EXIT_FAILURE, "subscribe error")
    /\ UNCHANGED <<args_name, adapters, peripherals, peripheral, chars,
                   rx_char, tx_char, raw_mode, alt_screen, tasks, wire, relay,
                   delivered, notif_stream, display, keys, key_event, data>>

\* Fault: the relay runs from the moment the notification stream exists.
NotificationsStartsRelay ==
    /\ pc = "notifications"
    /\ \/ /\ Called("notifications", "ok")
          /\ relay' = "running"
          /\ Goto("enable_raw_mode")
       \/ /\ Called("notifications", "err")
          /\ relay' = relay
          /\ Exit(EXIT_FAILURE, "notifications error")
    /\ UNCHANGED <<args_name, adapters, peripherals, peripheral, chars,
                   rx_char, tx_char, raw_mode, alt_screen, tasks, wire,
                   delivered, notif_stream, display, keys, key_event, data>>

\* let mut notif_stream = peripheral.notifications().await?
Notifications ==
    /\ pc = "notifications"
    /\ \/ Called("notifications", "ok") /\ Goto("enable_raw_mode")
       \/ Called("notifications", "err") /\ Exit(EXIT_FAILURE, "notifications error")
    /\ UNCHANGED <<args_name, adapters, peripherals, peripheral, chars,
                   rx_char, tx_char, raw_mode, alt_screen, tasks, wire, relay,
                   delivered, notif_stream, display, keys, key_event, data>>

\* terminal::enable_raw_mode()?
EnableRawMode ==
    /\ pc = "enable_raw_mode"
    /\ \/ raw_mode' = TRUE /\ Goto("enter_alternate_screen")
       \/ raw_mode' = raw_mode /\ Exit(EXIT_FAILURE, "enable_raw_mode error")
    /\ UNCHANGED <<args_name, adapters, peripherals, peripheral, calls, chars,
                   rx_char, tx_char, alt_screen, tasks, wire, relay,
                   delivered, notif_stream, display, keys, key_event, data>>

\* stdout.execute(terminal::EnterAlternateScreen)?
EnterAlternateScreen ==
    /\ pc = "enter_alternate_screen"
    /\ \/ alt_screen' = TRUE /\ Goto("spawn_startup")
       \/ alt_screen' = alt_screen /\ Exit(EXIT_FAILURE, "EnterAlternateScreen error")
    /\ UNCHANGED <<args_name, adapters, peripherals, peripheral, calls, chars,
                   rx_char, tx_char, raw_mode, tasks, wire, relay,
                   delivered, notif_stream, display, keys, key_event, data>>

\* One spawned send task: `data` is what it writes, `st` is "spawned" until
\* its write returns, then "ok" or "err".
SendTask(bytes) == [data |-> bytes, st |-> "spawned"]

\* Fault: the startup write spawned twice.
SpawnStartupTwice ==
    /\ pc = "spawn_startup"
    /\ tasks' = tasks \o << [data |-> <<BitAnd(AsU8(LOWER_L), CTRL_MASK)>>, st |-> "spawned"],
                           [data |-> <<BitAnd(AsU8(LOWER_L), CTRL_MASK)>>, st |-> "spawned"] >>
    /\ Goto("spawn_relay")
    /\ UNCHANGED <<args_name, adapters, peripherals, peripheral, calls, chars,
                   rx_char, tx_char, raw_mode, alt_screen, wire, relay,
                   delivered, notif_stream, display, keys, key_event, data>>

\* Fault: the startup byte without its `& 0x1F`.
SpawnStartupUnmasked ==
    /\ pc = "spawn_startup"
    /\ tasks' = Append(tasks, SendTask(<<AsU8(LOWER_L)>>))
    /\ Goto("spawn_relay")
    /\ UNCHANGED <<args_name, adapters, peripherals, peripheral, calls, chars,
                   rx_char, tx_char, raw_mode, alt_screen, wire, relay,
                   delivered, notif_stream, display, keys, key_event, data>>

\* tokio::spawn(async move { let _ = p.write(&ch, &['l' as u8 & 0x1F], ..).await; })
SpawnStartup ==
    /\ pc = "spawn_startup"
    /\ tasks' = Append(tasks, SendTask(<<BitAnd(AsU8(LOWER_L), CTRL_MASK)>>))
    /\ Goto("spawn_relay")
    /\ UNCHANGED <<args_name, adapters, peripherals, peripheral, calls, chars,
                   rx_char, tx_char, raw_mode, alt_screen, wire, relay,
                   delivered, notif_stream, display, keys, key_event, data>>

\* tokio::spawn(async move { while let Some(..) = notif_stream.next().await {..} })
SpawnRelay ==
    /\ pc = "spawn_relay"
    /\ relay' = "running"
    /\ Goto("poll")
    /\ UNCHANGED <<args_name, adapters, peripherals, peripheral, calls, chars,
                   rx_char, tx_char, raw_mode, alt_screen, tasks, wire,
                   delivered, notif_stream, display, keys, key_event, data>>

\* Fault: the loop takes the next event only once every send has completed.
PollAfterWrites ==
    /\ pc = "poll"
    /\ \/ /\ Len(keys) < MaxKeys
          /\ \A i \in 1..Len(tasks) : tasks[i].st # "spawned"
          /\ Goto("read")
       \/ Goto("poll")
       \/ Exit(EXIT_PANIC, "poll error")
    /\ UNCHANGED <<args_name, adapters, peripherals, peripheral, calls, chars,
                   rx_char, tx_char, raw_mode, alt_screen, tasks, wire, relay,
                   delivered, notif_stream, display, keys, key_event, data>>

\* event::poll(Duration::from_millis(50)).unwrap(): an event is ready, or the
\* 50 ms pass without one and the loop polls again, or poll fails and unwrap
\* panics.
Poll ==
    /\ pc = "poll"
    /\ \/ Len(keys) < MaxKeys /\ Goto("read")
       \/ Goto("poll")
       \/ Exit(EXIT_PANIC, "poll error")
    /\ UNCHANGED <<args_name, adapters, peripherals, peripheral, calls, chars,
                   rx_char, tx_char, raw_mode, alt_screen, tasks, wire, relay,
                   delivered, notif_stream, display, keys, key_event, data>>

\* if let event::Event::Key(key_event) = event::read().unwrap()
Read ==
    /\ pc = "read"
    /\ \/ \E ev \in SessionEvents :
            /\ keys' = Append(keys, ev)
            /\ IF ev.kind = "Key"
                 THEN key_event' = ev /\ Goto("match")
                 ELSE key_event' = key_event /\ Goto("poll")
       \/ /\ UNCHANGED <<keys, key_event>>
          /\ Exit(EXIT_PANIC, "read error")
    /\ UNCHANGED <<args_name, adapters, peripherals, peripheral, calls, chars,
                   rx_char, tx_char, raw_mode, alt_screen, tasks, wire, relay,
                   delivered, notif_stream, display, data>>

\* Fault: Ctrl-C ends the loop like Esc.
MatchBreakOnCtrlC ==
    /\ pc = "match"
    /\ IF \/ key_event.code = "Esc"
          \/ (key_event.code = "Char" /\ key_event.ch = 99
                /\ "CONTROL" \in key_event.modifiers)
         THEN /\ key_event' = NoEvent
              /\ data' = data
              /\ Goto("disable_raw_mode")
         ELSE /\ key_event' = key_event
              /\ data' = KeyData(key_event)
              /\ Goto("dispatch")
    /\ UNCHANGED <<args_name, adapters, peripherals, peripheral, calls, chars,
                   rx_char, tx_char, raw_mode, alt_screen, tasks, wire, relay,
                   delivered, notif_stream, display, keys>>

\* let data = match key_event.code { Esc => break, .. }
Match ==
    /\ pc = "match"
    /\ IF key_event.code = "Esc"
         THEN /\ key_event' = NoEvent
              /\ data' = data
              /\ Goto("disable_raw_mode")
         ELSE /\ key_event' = key_event
              /\ data' = KeyData(key_event)
              /\ Goto("dispatch")
    /\ UNCHANGED <<args_name, adapters, peripherals, peripheral, calls, chars,
                   rx_char, tx_char, raw_mode, alt_screen, tasks, wire, relay,
                   delivered, notif_stream, display, keys>>

\* if let Some(data) = data { tokio::spawn(async move { let _ = p.write(..).await; }); }
Dispatch ==
    /\ pc = "dispatch"
    /\ tasks' = IF data.some THEN Append(tasks, SendTask(data.bytes)) ELSE tasks
    /\ key_event' = NoEvent
    /\ data' = None
    /\ Goto("poll")
    /\ UNCHANGED <<args_name, adapters, peripherals, peripheral, calls, chars,
                   rx_char, tx_char, raw_mode, alt_screen, wire, relay,
                   delivered, notif_stream, display, keys>>

\* terminal::disable_raw_mode()?
DisableRawMode ==
    /\ pc = "disable_raw_mode"
    /\ \/ raw_mode' = FALSE /\ Goto("leave_alternate_screen")
       \/ raw_mode' = raw_mode /\ Exit(EXIT_FAILURE, "disable_raw_mode error")
    /\ UNCHANGED <<args_name, adapters, peripherals, peripheral, calls, chars,
                   rx_char, tx_char, alt_screen, tasks, wire, relay,
                   delivered, notif_stream, display, keys, key_event, data>>

\* std::io::stdout().execute(terminal::LeaveAlternateScreen)?
LeaveAlternateScreen ==
    /\ pc = "leave_alternate_screen"
    /\ \/ alt_screen' = FALSE /\ Goto("return")
       \/ alt_screen' = alt_screen /\ Exit(EXIT_FAILURE, "LeaveAlternateScreen error")
    /\ UNCHANGED <<args_name, adapters, peripherals, peripheral, calls, chars,
                   rx_char, tx_char, raw_mode, tasks, wire, relay,
                   delivered, notif_stream, display, keys, key_event, data>>

\* Fault: main joins the send tasks before it returns.
ReturnAfterDrain ==
    /\ pc = "return"
    /\ \A i \in 1..Len(tasks) : tasks[i].st # "spawned"
    /\ Exit(EXIT_SUCCESS, "")
    /\ UNCHANGED <<args_name, adapters, peripherals, peripheral, calls, chars,
                   rx_char, tx_char, raw_mode, alt_screen, tasks, wire, relay,
                   delivered, notif_stream, display, keys, key_event, data>>

\* info!("NUS terminal exited"); Ok(())
Return ==
    /\ pc = "return"
    /\ Exit(EXIT_SUCCESS, "")
    /\ UNCHANGED <<args_name, adapters, peripherals, peripheral, calls, chars,
                   rx_char, tx_char, raw_mode, alt_screen, tasks, wire, relay,
                   delivered, notif_stream, display, keys, key_event, data>>

----------------------------------------------------------------------------
\* The spawned tasks and the transport.  They run while the process does.

\* Fault: the sends are written one after the other, in the order spawned.
WriteOkInOrder(i) ==
    /\ Running
    /\ tasks[i].st = "spawned"
    /\ \A j \in 1..(i - 1) : tasks[j].st # "spawned"
    /\ tasks' = [tasks EXCEPT ![i].st = "ok"]
    /\ wire' = Append(wire, i)
    /\ UNCHANGED <<pc, exit_code, error, args_name, adapters, peripherals,
                   peripheral, calls, chars, rx_char, tx_char, raw_mode,
                   alt_screen, relay, delivered, notif_stream, display, keys,
                   key_event, data>>

\* Fault: a write call carries one byte, a longer sequence takes several.
WriteOkSplit(i) ==
    /\ Running
    /\ tasks[i].st = "spawned"
    /\ tasks' = IF Len(tasks[i].data) > 1
                  THEN [tasks EXCEPT ![i].data = Tail(tasks[i].data)]
                  ELSE [tasks EXCEPT ![i].st = "ok"]
    /\ wire' = Append(wire, i)
    /\ UNCHANGED <<pc, exit_code, error, args_name, adapters, peripherals,
                   peripheral, calls, chars, rx_char, tx_char, raw_mode,
                   alt_screen, relay, delivered, notif_stream, display, keys,
                   key_event, data>>

\* The write of send task i reaches the device.
WriteOk(i) ==
    /\ Running
    /\ tasks[i].st = "spawned"
    /\ tasks' = [tasks EXCEPT ![i].st = "ok"]
    /\ wire' = Append(wire, i)
    /\ UNCHANGED <<pc, exit_code, error, args_name, adapters, peripherals,
                   peripheral, calls, chars, rx_char, tx_char, raw_mode,
                   alt_screen, relay, delivered, notif_stream, display, keys,
                   key_event, data>>

\* Fault: the error of the write propagates and ends the process.
WriteErrFatal(i) ==
    /\ Running
    /\ tasks[i].st = "spawned"
    /\ tasks' = [tasks EXCEPT ![i].st = "err"]
    /\ Exit(EXIT_FAILURE, "write error")
    /\ UNCHANGED <<args_name, adapters, peripherals,
                   peripheral, calls, chars, rx_char, tx_char, raw_mode,
                   alt_screen, wire, relay, delivered, notif_stream, display,
                   keys, key_event, data>>

\* The write of send task i returns Err, which `let _ =` drops.
WriteErr(i) ==
    /\ Running
    /\ tasks[i].st = "spawned"
    /\ tasks' = [tasks EXCEPT ![i].st = "err"]
    /\ UNCHANGED <<pc, exit_code, error, args_name, adapters, peripherals,
                   peripheral, calls, chars, rx_char, tx_char, raw_mode,
                   alt_screen, wire, relay, delivered, notif_stream, display,
                   keys, key_event, data>>

\* p.write(&ch, &data, WriteType::WithoutResponse).await in a send task
Write ==
    \E i \in 1..Len(tasks) : WriteOk(i) \/ WriteErr(i)

\* The transport puts one notification payload on notif_stream.
Notify ==
    /\ Running
    /\ calls["notifications"] = "ok"
    /\ relay # "ended"
    /\ Len(delivered) < MaxNotif
    /\ \E value \in SessionPayloads :
            /\ delivered' = Append(delivered, value)
            /\ notif_stream' = Append(notif_stream, value)
    /\ UNCHANGED <<pc, exit_code, error, args_name, adapters, peripherals,
                   peripheral, calls, chars, rx_char, tx_char, raw_mode,
                   alt_screen, tasks, wire, relay, display, keys, key_event,
                   data>>

\* Fault: the relay drops a chunk equal to the one it printed last.
RelayNextDedup ==
    /\ Running
    /\ relay = "running"
    /\ notif_stream # <<>>
    /\ LET s == FromUtf8Lossy(Head(notif_stream))
       IN  display' = IF display # <<>> /\ display[Len(display)] = s
                        THEN display
                        ELSE Append(display, s)
    /\ notif_stream' = Tail(notif_stream)
    /\ UNCHANGED <<pc, exit_code, error, args_name, adapters, peripherals,
                   peripheral, calls, chars, rx_char, tx_char, raw_mode,
                   alt_screen, tasks, wire, relay, delivered, keys, key_event,
                   data>>

\* One iteration of the relay: notif_stream.next() yields Some(value);
\* print!("{}", String::from_utf8_lossy(&value)); stdout.flush()
RelayNext ==
    /\ Running
    /\ relay = "running"
    /\ notif_stream # <<>>
    /\ display' = Append(display, FromUtf8Lossy(Head(notif_stream)))
    /\ notif_stream' = Tail(notif_stream)
    /\ UNCHANGED <<pc, exit_code, error, args_name, adapters, peripherals,
                   peripheral, calls, chars, rx_char, tx_char, raw_mode,
                   alt_screen, tasks, wire, relay, delivered, keys, key_event,
                   data>>

\* notif_stream.next() yields None (the transport ended the stream): the
\* `while let` loop, and the relay task with it, ends.
RelayEnd ==
    /\ Running
    /\ relay = "running"
    /\ notif_stream = <<>>
    /\ relay' = "ended"
    /\ UNCHANGED <<pc, exit_code, error, args_name, adapters, peripherals,
                   peripheral, calls, chars, rx_char, tx_char, raw_mode,
                   alt_screen, tasks, wire, delivered, notif_stream, display,
                   keys, key_event, data>>

----------------------------------------------------------------------------
\* Specifications.

Setup(scans) ==
    \/ ManagerNew
    \/ Adapters
    \/ First
    \/ StartScan
    \/ Sleep
    \/ Peripherals(scans)
    \/ FindPeripheral
    \/ Connect
    \/ DiscoverServices
    \/ ResolveRx
    \/ ResolveTx
    \/ Subscribe
    \/ Notifications
    \/ EnableRawMode
    \/ EnterAlternateScreen

Active ==
    \/ SpawnStartup
    \/ SpawnRelay
    \/ Poll
    \/ Read
    \/ Match
    \/ Dispatch

Teardown ==
    \/ DisableRawMode
    \/ LeaveAlternateScreen
    \/ Return

Spawned ==
    \/ Write
    \/ Notify
    \/ RelayNext
    \/ RelayEnd

\* One session of the program.
Next == Setup(SessionScans) \/ Active \/ Teardown \/ Spawned

Spec == Init /\ [][Next]_vars

\* main is the future block_on drives on the main thread: once it is past
\* the loop nothing it awaits remains, so each teardown step is taken.  No
\* fairness is stated for the spawned tasks or for the transport.
SpecFair == Spec /\ WF_vars(Teardown) /\ WF_vars(Match)

\* The setup phase, for every filter and every scan result within the bounds.
InitLocate ==
    /\ Init0
    /\ args_name \in Names

NextLocate == Setup(Scans)

SpecLocate == InitLocate /\ [][NextLocate]_vars

\* The loop body applied to every key event: main has entered the Active
\* phase and has just read `key_event`.
InitEnc ==
    /\ pc = "match"
    /\ exit_code = NotExited
    /\ error = ""
    /\ args_name = SessionName
    /\ adapters = 1
    /\ peripherals = <<Named(<<"a">>)>>
    /\ peripheral = [addr |-> 1, props |-> "named", name |-> <<"a">>]
    /\ calls = [m \in Methods |-> "ok"]
    /\ chars = {NUS_RX_CHAR_UUID, NUS_TX_CHAR_UUID}
    /\ rx_char = TRUE
    /\ tx_char = TRUE
    /\ raw_mode = TRUE
    /\ alt_screen = TRUE
    /\ tasks = <<SendTask(<<CTRL_L>>)>>
    /\ wire = <<>>
    /\ relay = "running"
    /\ delivered = <<>>
    /\ notif_stream = <<>>
    /\ display = <<>>
    /\ key_event \in KeyEvents
    /\ keys = <<key_event>>
    /\ data = None

NextEnc == Match \/ Dispatch

SpecEnc == InitEnc /\ [][NextEnc]_vars

----------------------------------------------------------------------------
\* Properties.

NotFoundMsg == "Could not find a device with given name"

\* The errors main can end with before `find` runs.
PreFindErrors ==
    {"manager error", "adapters error", "No bluetooth adapter found",
     "start_scan error", "peripherals error"}

\* `find` has run on the scan result.
FindDone ==
    /\ pc \notin {"manager_new", "adapters", "first", "start_scan", "sleep",
                  "peripherals", "find"}
    /\ error \notin PreFindErrors

\* The advertised name of the j-th scanned peripheral contains the filter.
NameContainsFilter(j) ==
    /\ peripherals[j].props = "named"
    /\ \E k \in 0..Len(peripherals[j].name) :
          /\ k + Len(args_name) <= Len(peripherals[j].name)
          /\ \A n \in 1..Len(args_name) : peripherals[j].name[k + n] = args_name[n]

SomeNameContainsFilter == \E j \in 1..Len(peripherals) : NameContainsFilter(j)

\* Every step of Setup before raw mode has succeeded.
SetupSucceeded ==
    /\ adapters >= 1
    /\ peripheral # NoPeripheral
    /\ calls["connect"] = "ok"
    /\ calls["discover_services"] = "ok"
    /\ rx_char /\ NUS_RX_CHAR_UUID \in chars
    /\ tx_char /\ NUS_TX_CHAR_UUID \in chars
    /\ calls["subscribe"] = "ok"
    /\ calls["notifications"] = "ok"

\* The errors of the Setup steps that come before raw mode.
SetupErrors ==
    PreFindErrors \cup
    {NotFoundMsg, "connect error", "discover_services error",
     "RX characteristic not found", "TX characteristic not found",
     "subscribe error", "notifications error", "enable_raw_mode error"}

\* C1: raw mode is on only if locate, connect, discover, the resolution of
\* both characteristics and subscribe (and the notification stream) have all
\* succeeded; and a process that ended on the failure of one of these steps
\* ended with a non-zero status, a message, and the terminal not in raw mode.
C1_RawModeOnlyAfterSetup ==
    /\ (raw_mode \/ alt_screen) => SetupSucceeded
    /\ (~Running /\ ~SetupSucceeded) =>
          /\ exit_code \in {EXIT_FAILURE, EXIT_PANIC}
          /\ error \in SetupErrors
          /\ ~raw_mode /\ ~alt_screen
    /\ error \in SetupErrors => (~Running /\ exit_code # EXIT_SUCCESS /\ ~raw_mode)

\* C1 witness: discovery succeeded, the TX characteristic is missing, and
\* the process has panicked with the terminal untouched.
C1_Witness ==
    /\ pc = "exited"
    /\ exit_code = EXIT_PANIC
    /\ error = "TX characteristic not found"
    /\ calls["discover_services"] = "ok"
    /\ rx_char
    /\ ~raw_mode

\* C2: when some scanned peripheral's advertised name contains the filter,
\* `find` selects the first such peripheral in scan order: the selected one
\* contains the filter and no earlier one does.
C2_FirstMatchSelected ==
    /\ (FindDone /\ SomeNameContainsFilter) =>
          /\ peripheral.addr \in 1..Len(peripherals)
          /\ NameContainsFilter(peripheral.addr)
          /\ \A j \in 1..(peripheral.addr - 1) : ~NameContainsFilter(j)
          /\ peripheral.name = peripherals[peripheral.addr].name
    /\ peripheral # NoPeripheral =>
          /\ peripheral.addr \in 1..Len(peripherals)
          /\ NameContainsFilter(peripheral.addr)

\* C2 witness: two peripherals match a filter that is a proper substring of
\* both names, and the first one is selected.
C2_Witness ==
    /\ pc = "connect"
    /\ Len(peripherals) = 2
    /\ Len(args_name) = 1
    /\ NameContainsFilter(1) /\ NameContainsFilter(2)
    /\ peripherals[1].name # peripherals[2].name
    /\ Len(peripherals[1].name) = 2
    /\ peripheral.addr = 1

\* C3: when no scanned peripheral's advertised name contains the filter, the
\* process ends with the not-found error and no method of any peripheral
\* (connect, discover_services, subscribe, notifications) was ever called.
C3_NotFoundNoConnect ==
    /\ (FindDone /\ ~SomeNameContainsFilter) =>
          /\ pc = "exited"
          /\ exit_code = EXIT_FAILURE
          /\ error = NotFoundMsg
          /\ peripheral = NoPeripheral
          /\ \A m \in Methods : calls[m] = "none"
          /\ chars = {} /\ ~raw_mode /\ tasks = <<>>
    /\ (\E m \in Methods : calls[m] # "none") => SomeNameContainsFilter

\* C3 witness: the scan saw two named peripherals, neither name contains
\* the filter, and the process has ended with the not-found error.
C3_Witness ==
    /\ pc = "exited"
    /\ error = NotFoundMsg
    /\ Len(peripherals) = 2
    /\ \A j \in 1..2 : peripherals[j].props = "named" /\ Len(peripherals[j].name) = 2
    /\ Len(args_name) = 2

\* The text the display shows for each payload of the session: U+00E9 and
\* one U+FFFD for the cut second character; one U+FFFD for the lone
\* continuation byte.
LossyText(value) ==
    CASE value = <<195, 169, 195>> -> <<233, 65533>>
      [] value = <<169>>           -> <<65533>>

\* C4: the chunks written to the display are, in order, the lossy decodings
\* of a prefix of the payloads the transport delivered, one chunk per payload
\* (nothing lost in the middle, duplicated, deduplicated or coalesced), and
\* the payloads not yet displayed are exactly the rest, still in order.
C4_DisplayIsPrefixOfDelivered ==
    /\ Len(display) <= Len(delivered)
    /\ \A i \in 1..Len(display) : display[i] = LossyText(delivered[i])
    /\ relay = "none" => display = <<>>
    /\ Running =>
          notif_stream = SubSeq(delivered, Len(display) + 1, Len(delivered))

\* C4 witness: two identical consecutive payloads, both written.
C4_Witness ==
    /\ Len(delivered) = 2
    /\ delivered[1] = delivered[2]
    /\ Len(display) = 2
    /\ display[1] = display[2]

\* The terminal pcs of the loop and of teardown.
ActivePcs == {"poll", "read", "match", "dispatch"}
TeardownPcs == {"disable_raw_mode", "leave_alternate_screen", "return"}

\* The last terminal event read is the Escape key.
EscapeRead == keys # <<>> /\ keys[Len(keys)].code = "Esc"

\* The key events read that are not Escape.
NonEscapeKeys ==
    {i \in 1..Len(keys) : keys[i].kind = "Key" /\ keys[i].code # "Esc"}

\* C5: an Escape key event spawns no send (there is at most the startup send
\* and one send per key event that is not Escape), and it is the one event
\* that ends the loop: main is in teardown, or has exited with success, only
\* if the last event read is Escape; after any other key event, whatever
\* its modifiers, main is still in the loop (or poll/read has panicked);
\* once Escape is read main is past the loop and reads nothing more.
C5_OnlyEscapeEndsActive ==
    /\ Len(tasks) <= 1 + Cardinality(NonEscapeKeys)
    /\ \A i \in 1..(Len(keys) - 1) : keys[i].code # "Esc"
    /\ (pc \in TeardownPcs \/ exit_code = EXIT_SUCCESS) => EscapeRead
    /\ EscapeRead => pc \in {"match", "exited"} \cup TeardownPcs
    /\ (keys # <<>> /\ ~EscapeRead) =>
          /\ pc \in ActivePcs \cup {"exited"}
          /\ pc = "exited" => exit_code = EXIT_PANIC

\* C5 witness: Escape was read, main is at teardown, nothing was spawned.
C5_Witness ==
    /\ pc = "disable_raw_mode"
    /\ keys[1] = KeyEvent("Esc", 0, {"CONTROL"})
    /\ Len(tasks) = 1

\* The end-to-end scenario: "a" then Escape are the events read.
ScenarioKeys == <<KeyEvent("Char", 97, {}), KeyEvent("Esc", 0, {})>>

TeardownErrors == {"disable_raw_mode error", "LeaveAlternateScreen error"}

\* The bytes the device received, in order.
Transmitted == [k \in 1..Len(wire) |-> tasks[wire[k]].data]

\* C6 as stated: in the scenario, whenever the process has ended (here even
\* granting that it ended with success and that no write returned an
\* error), the device received the startup byte 0x0C and exactly one
\* keystroke byte 0x61.
C6_AsStated ==
    (/\ pc = "exited"
     /\ keys = ScenarioKeys
     /\ exit_code = EXIT_SUCCESS
     /\ \A i \in 1..Len(tasks) : tasks[i].st # "err")
        => (\/ Transmitted = << <<12>>, <<97>> >>
            \/ Transmitted = << <<97>>, <<12>> >>)

\* C6 amended: in the scenario exactly two sends are dispatched, the startup
\* byte 0x0C first and one keystroke send carrying the single byte 0x61; the
\* device receives each of them at most once and nothing else; main goes on
\* to teardown, and the process ends with status 0, raw mode left and the
\* screen restored, unless a teardown call returned an error.
C6_EndToEnd ==
    keys = ScenarioKeys =>
        /\ SetupSucceeded
        /\ Len(tasks) = 2
        /\ tasks[1].data = <<12>>
        /\ tasks[2].data = <<97>>
        /\ Len(wire) <= 2
        /\ \A k \in 1..Len(wire) : wire[k] \in 1..2
        /\ \A j, k \in 1..Len(wire) : wire[j] = wire[k] => j = k
        /\ \A k \in 1..Len(wire) : tasks[wire[k]].st = "ok"
        /\ pc \in {"match", "exited"} \cup TeardownPcs
        /\ pc = "exited" =>
              \/ exit_code = EXIT_SUCCESS /\ ~raw_mode /\ ~alt_screen /\ error = ""
              \/ exit_code = EXIT_FAILURE /\ error \in TeardownErrors

\* C6 witness: the scenario ran to exit code 0 and both bytes were received.
C6_Witness ==
    /\ pc = "exited"
    /\ keys = ScenarioKeys
    /\ exit_code = EXIT_SUCCESS
    /\ Transmitted = << <<12>>, <<97>> >>

\* C7 as stated: whenever the process has ended after Escape was read, it
\* has left raw mode, restored the screen and ended with success.
C7_AsStated ==
    (pc = "exited" /\ EscapeRead) =>
        (exit_code = EXIT_SUCCESS /\ ~raw_mode /\ ~alt_screen)

\* C7 amended: once Escape is read the process eventually ends, whatever the
\* send tasks and the relay do or fail to do (no fairness is assumed for
\* them); it ends with success, raw mode left and the screen restored, unless
\* disable_raw_mode or LeaveAlternateScreen returned an error, which ends it
\* with a failure at once; and a send that is pending when the process ends
\* stays pending: it is abandoned, not drained.
C7_EscapeLeadsToExit ==
    /\ EscapeRead ~> (pc = "exited")
    /\ [](pc = "exited" /\ EscapeRead =>
            \/ exit_code = EXIT_SUCCESS /\ ~raw_mode /\ ~alt_screen
            \/ exit_code = EXIT_FAILURE /\ error \in TeardownErrors)
    /\ [][pc = "exited" => (tasks' = tasks /\ wire' = wire /\ display' = display)]_vars

\* C7 witness: the process has ended with success after Escape while two
\* sends were still pending and a notification was still undisplayed.
C7_Witness ==
    /\ pc = "exited"
    /\ EscapeRead
    /\ exit_code = EXIT_SUCCESS
    /\ ~raw_mode /\ ~alt_screen
    /\ Len(tasks) = 2
    /\ \A i \in 1..2 : tasks[i].st = "spawned"
    /\ notif_stream # <<>>

\* C8: a write that fails changes nothing but the state of its own task:
\* main stays where it is, the process keeps running, the relay, the
\* terminal, the other tasks and what the device received are untouched.
C8_WriteFailureAbsorbed ==
    [][(\E i \in 1..Len(tasks) : tasks[i].st = "spawned" /\ tasks'[i].st = "err")
        => /\ pc' = pc
           /\ exit_code' = exit_code /\ exit_code = NotExited
           /\ error' = error
           /\ relay' = relay
           /\ raw_mode' = raw_mode /\ alt_screen' = alt_screen
           /\ wire' = wire
           /\ <<keys, key_event, data>>' = <<keys, key_event, data>>
           /\ <<delivered, notif_stream, display>>' = <<delivered, notif_stream, display>>
           /\ Len(tasks') = Len(tasks)
           /\ \A j \in 1..Len(tasks) :
                 tasks'[j].data = tasks[j].data
                 /\ (tasks[j].st # "spawned" => tasks'[j] = tasks[j])]_vars

\* C8 witness: the startup write and a keystroke write have both failed, and
\* main is back at poll having dispatched the send of a later key event.
C8_Witness ==
    /\ pc = "poll"
    /\ Running
    /\ Len(tasks) = 3
    /\ tasks[1].st = "err"
    /\ tasks[2].st = "err"
    /\ tasks[3].st = "spawned"
    /\ relay = "running"
    /\ raw_mode

\* The encoder has run on the key event of this iteration.
Encoded == pc = "dispatch"

\* C9 (every key event, specification SpecEnc): a Char key event carrying a
\* printable ASCII character c encodes to one byte: with Control held, the
\* byte below 32 that agrees with ord(c) in its low five bits; without
\* Control, whatever else is held, ord(c) itself.  The send dispatched next
\* carries that byte.
C9_CharEncoding ==
    /\ (Encoded /\ key_event.code = "Char" /\ key_event.ch \in PrintableAscii) =>
          /\ data.some
          /\ Len(data.bytes) = 1
          /\ IF "CONTROL" \in key_event.modifiers
               THEN /\ data.bytes[1] \in 0..31
                    /\ (key_event.ch - data.bytes[1]) % 32 = 0
               ELSE data.bytes[1] = key_event.ch
    /\ (pc = "poll" /\ keys[1].code = "Char" /\ keys[1].ch \in PrintableAscii) =>
          /\ Len(tasks) = 2
          /\ tasks[2].data =
                << IF "CONTROL" \in keys[1].modifiers
                     THEN keys[1].ch % 32 ELSE keys[1].ch >>

\* C9 witness: Ctrl-Shift-L has been encoded to the byte 0x0C.
C9_Witness ==
    /\ Encoded
    /\ key_event = KeyEvent("Char", 76, {"CONTROL", "SHIFT"})
    /\ data = [some |-> TRUE, bytes |-> <<12>>]

\* C10 (every key event, specification SpecEnc): an arrow key, under every
\* modifier set, encodes to exactly three bytes: ESC, '[', and 'D' for
\* Left, 'C' for Right, 'A' for Up, 'B' for Down.
C10_ArrowEncoding ==
    (Encoded /\ key_event.code \in ArrowCodes) =>
        /\ data.some
        /\ Len(data.bytes) = 3
        /\ data.bytes[1] = 27
        /\ data.bytes[2] = 91
        /\ data.bytes[3] = (CASE key_event.code = "Left"  -> 68
                              [] key_event.code = "Right" -> 67
                              [] key_event.code = "Up"    -> 65
                              [] key_event.code = "Down"  -> 66)

\* C10 witness: Left with Control and Alt held has been encoded to ESC [ D.
C10_Witness ==
    /\ Encoded
    /\ key_event = KeyEvent("Left", 0, {"CONTROL", "ALT"})
    /\ data = [some |-> TRUE, bytes |-> <<27, 91, 68>>]

\* C11 (every key event, specification SpecEnc): Enter, under every modifier
\* set, encodes to exactly one byte, the carriage return 13 and not the line
\* feed 10; decoded as text it is the one character U+000D.  The send
\* dispatched next carries that byte.
C11_EnterIsCarriageReturn ==
    /\ (Encoded /\ key_event.code = "Enter") =>
          /\ data.some
          /\ Len(data.bytes) = 1
          /\ data.bytes[1] = 13
          /\ data.bytes[1] # 10
          /\ FromUtf8Lossy(data.bytes) = <<13>>
    /\ (pc = "poll" /\ keys[1].code = "Enter") =>
          (Len(tasks) = 2 /\ tasks[2].data = <<13>>)

\* C11 witness: Enter with Shift held has been encoded to the byte 13.
C11_Witness ==
    /\ Encoded
    /\ key_event = KeyEvent("Enter", 0, {"SHIFT"})
    /\ data = [some |-> TRUE, bytes |-> <<13>>]

\* Service discovery has succeeded and `find` on `chars` has run for RX
\* (and, RX being there, for TX).
RxResolved == calls["discover_services"] = "ok" /\ pc # "rx_char"
TxResolved == RxResolved /\ NUS_RX_CHAR_UUID \in chars /\ pc # "tx_char"

\* C12: when discovery succeeded and the RX characteristic is absent, the
\* process has ended with a non-zero status and the RX message; when RX is
\* there and the TX characteristic is absent, with a non-zero status and the
\* TX message; in both cases subscribe (and notifications) was never called,
\* no send was ever spawned or written, and the terminal was never touched.
C12_MissingCharacteristic ==
    /\ (RxResolved /\ NUS_RX_CHAR_UUID \notin chars) =>
          /\ pc = "exited"
          /\ exit_code \notin {NotExited, EXIT_SUCCESS}
          /\ error = "RX characteristic not found"
    /\ (TxResolved /\ NUS_TX_CHAR_UUID \notin chars) =>
          /\ pc = "exited"
          /\ exit_code \notin {NotExited, EXIT_SUCCESS}
          /\ error = "TX characteristic not found"
    /\ (calls["discover_services"] = "ok"
          /\ (NUS_RX_CHAR_UUID \notin chars \/ NUS_TX_CHAR_UUID \notin chars)) =>
          /\ calls["subscribe"] = "none"
          /\ calls["notifications"] = "none"
          /\ tasks = <<>> /\ wire = <<>>
          /\ relay = "none" /\ display = <<>>
          /\ ~raw_mode /\ ~alt_screen
          /\ exit_code # EXIT_SUCCESS

\* C12 witness: the peripheral has the RX characteristic and another one,
\* not TX, and the process has ended on the missing TX characteristic.
C12_Witness ==
    /\ pc = "exited"
    /\ chars = {NUS_RX_CHAR_UUID, OTHER_CHAR_UUID}
    /\ rx_char /\ ~tx_char
    /\ error = "TX characteristic not found"
    /\ exit_code = EXIT_PANIC
    /\ calls["subscribe"] = "none"

\* properties() of the j-th scanned peripheral failed, gave no properties,
\* or gave properties without a local name.
Unnamed(j) == peripherals[j].props \in {"err", "none", "anon"}

\* C13: a candidate whose name lookup is an error, gives no properties or
\* has no local name counts as a non-match and is skipped: whenever some
\* scanned peripheral's name contains the filter, the first such one is
\* selected, whatever unnamed candidates the scan holds and wherever they
\* stand, and the process does not end with the not-found error (nor with an
\* error of the lookup: `find` produces no other error); the not-found error
\* results exactly when no candidate's name contains the filter.
C13_UnnamedCandidatesSkipped ==
    /\ (FindDone /\ SomeNameContainsFilter) =>
          /\ error # NotFoundMsg
          /\ peripheral.props = "named"
          /\ NameContainsFilter(peripheral.addr)
          /\ \A k \in 1..Len(peripherals) :
                NameContainsFilter(k) => peripheral.addr <= k
          /\ \A j \in 1..(peripheral.addr - 1) :
                Unnamed(j) \/ ~NameContainsFilter(j)
    /\ (error = NotFoundMsg) <=> (FindDone /\ ~SomeNameContainsFilter)
    /\ (FindDone /\ pc = "exited") =>
          error \in (SetupErrors \ PreFindErrors) \cup {"EnterAlternateScreen error"}

\* C13 witness: the lookup failed for the first candidate, the second one's
\* name contains the filter and is the one selected.
C13_Witness ==
    /\ pc = "connect"
    /\ Len(peripherals) = 2
    /\ peripherals[1].props = "err"
    /\ NameContainsFilter(2)
    /\ Len(args_name) = 1
    /\ peripheral.addr = 2

\* The pcs of Setup.
SetupPcs == {"manager_new", "adapters", "first", "start_scan", "sleep",
             "peripherals", "find", "connect", "discover_services", "rx_char",
             "tx_char", "subscribe", "notifications", "enable_raw_mode",
             "enter_alternate_screen"}

\* Setup is complete: main has entered the Active phase (and may have left
\* it since).
EnteredActive ==
    /\ pc \notin SetupPcs
    /\ error \notin SetupErrors \cup {"EnterAlternateScreen error"}

\* A key event of a code that has an entry with bytes in the encoding table.
ProducesBytes(ev) ==
    /\ ev.kind = "Key"
    /\ ev.code \in {"Backspace", "Char", "Left", "Right", "Up", "Down",
                    "Enter", "Tab"}

\* The byte-producing key events read, in order.
ByteKeys == SelectSeq(keys, ProducesBytes)

\* Those whose send has been dispatched: all but the one of the iteration in
\* progress.
DispatchedKeys ==
    IF pc \in {"match", "dispatch"} /\ ProducesBytes(keys[Len(keys)])
      THEN SubSeq(ByteKeys, 1, Len(ByteKeys) - 1)
      ELSE ByteKeys

\* What the key events of the session encode to.
SessionBytes(ev) ==
    CASE ev = KeyEvent("Char", 97, {})         -> <<97>>
      [] ev = KeyEvent("Left", 0, {"CONTROL"}) -> <<27, 91, 68>>

\* C14: the startup write, carrying the single byte 0x0C, is dispatched
\* exactly once per session: it is the first send spawned, it is there
\* before the first terminal event is read, and every other send spawned is
\* the send of one byte-producing key event, in the order read; before the
\* Active phase nothing is spawned and nothing is read.
C14_OneStartupWrite ==
    /\ (EnteredActive /\ pc # "spawn_startup") =>
          /\ Len(tasks) = 1 + Len(DispatchedKeys)
          /\ tasks[1].data = <<12>>
          /\ \A k \in 2..Len(tasks) :
                tasks[k].data = SessionBytes(DispatchedKeys[k - 1])
    /\ ~(EnteredActive /\ pc # "spawn_startup") => (tasks = <<>> /\ keys = <<>>)
    /\ pc = "read" => Len(tasks) >= 1

\* C14 witness: main is about to read its first terminal event and the
\* startup write is the one send spawned (here already written).
C14_Witness ==
    /\ pc = "read"
    /\ keys = <<>>
    /\ Len(tasks) = 1
    /\ tasks[1] = [data |-> <<12>>, st |-> "ok"]
    /\ wire = <<1>>

\* C15: the poll loop never waits for a send: while the process runs, and
\* whatever the states of the sends spawned so far (none of them written
\* yet included), the loop can take the next event when one is ready, read
\* it whatever it is, decode it (the Escape transition included) and
\* dispatch its send.
C15_LoopNeverWaitsForSend ==
    /\ (pc = "poll" /\ Len(keys) < MaxKeys) => ENABLED (Poll /\ pc' = "read")
    /\ pc = "read" =>
          \A ev \in SessionEvents : ENABLED (Read /\ keys' = Append(keys, ev))
    /\ (pc = "match" /\ key_event.code = "Esc") =>
          ENABLED (Match /\ pc' = "disable_raw_mode")
    /\ (pc = "match" /\ key_event.code # "Esc") =>
          ENABLED (Match /\ pc' = "dispatch")
    /\ pc = "dispatch" =>
          ENABLED (Dispatch /\ Len(tasks') = Len(tasks) + (IF data.some THEN 1 ELSE 0))

\* C15 witness: the second key event (Escape) has been read and is about to
\* be acted on while the startup write and the write of the first
\* keystroke have both not been performed.
C15_Witness ==
    /\ pc = "match"
    /\ keys = <<KeyEvent("Char", 97, {}), KeyEvent("Esc", 0, {})>>
    /\ Len(tasks) = 2
    /\ tasks[1].st = "spawned"
    /\ tasks[2].st = "spawned"

\* C16: the writes are not ordered: while the process runs, the write of
\* any send spawned and not yet performed can be the next one to reach the
\* transport, whichever earlier sends are still outstanding; so the write of
\* a later keystroke can precede that of an earlier one, and that of the
\* startup byte.
C16_WritesUnordered ==
    \A i \in 1..Len(tasks) :
        (Running /\ tasks[i].st = "spawned") =>
            ENABLED (WriteOk(i) /\ wire' = Append(wire, i))

\* C16 witness: the three writes reached the transport in the reverse of
\* the order spawned: second keystroke, first keystroke, startup byte.
C16_Witness ==
    /\ keys = <<KeyEvent("Char", 97, {}), KeyEvent("Left", 0, {"CONTROL"})>>
    /\ wire = <<3, 2, 1>>
    /\ Transmitted = << <<27, 91, 68>>, <<97>>, <<12>> >>

\* C17: the relay starts only in the Active phase: as long as setup is not
\* complete (subscribe succeeded, notification stream obtained, raw mode and
\* alternate screen entered, startup write spawned), the relay does not
\* exist, it has taken no payload off the notification stream, and nothing
\* is on the display.
C17_RelayOnlyWhenActive ==
    (relay # "none" \/ display # <<>> \/ notif_stream # delivered) =>
        /\ calls["subscribe"] = "ok"
        /\ calls["notifications"] = "ok"
        /\ EnteredActive
        /\ pc \notin {"spawn_startup", "spawn_relay"}
        /\ Len(tasks) >= 1

\* C17 witness: in the Active phase, before any key is read, the relay has
\* written one payload to the display.
C17_Witness ==
    /\ pc = "poll"
    /\ keys = <<>>
    /\ raw_mode /\ alt_screen
    /\ relay = "running"
    /\ Len(display) = 1
    /\ Len(delivered) = 1

\* The terminal event the current iteration of the loop read.
LastRead == keys[Len(keys)]

\* A key event that is neither Escape nor in the encoding table, or a
\* terminal event that is no key event.
Ignored(ev) == ~ProducesBytes(ev) /\ ~(ev.kind = "Key" /\ ev.code = "Esc")

\* What a step of main on an ignored event leaves alone.
SessionUnchanged ==
    UNCHANGED <<tasks, wire, raw_mode, alt_screen, display, relay, calls,
                exit_code, error, delivered, notif_stream>>

\* C18: an event that is no key event, and a key event that is neither
\* Escape nor one of Backspace, Char, the arrows, Enter, Tab, dispatches no
\* send and changes nothing of the session: reading a non-key event goes
\* straight back to polling, decoding such a key yields no bytes, and the
\* dispatch step then spawns nothing; the phase stays Active. Hence the
\* sends ever spawned number at most one plus the byte-producing key events
\* read.
C18_IgnoredEventsSendNothing ==
    /\ [][ /\ (pc = "read" /\ pc' # "read" /\ keys' # keys /\ Ignored(keys'[Len(keys')])) =>
                /\ SessionUnchanged
                /\ pc' \in ActivePcs
                /\ (keys'[Len(keys')].kind # "Key" => pc' = "poll")
           /\ (pc = "match" /\ pc' # "match" /\ Ignored(LastRead)) =>
                /\ SessionUnchanged
                /\ pc' = "dispatch"
                /\ ~data'.some
           /\ (pc = "dispatch" /\ pc' # "dispatch" /\ Ignored(LastRead)) =>
                /\ SessionUnchanged
                /\ pc' = "poll"
         ]_vars
    /\ [](Len(tasks) <= 1 + Len(ByteKeys))

\* C18 witness: a function key and a resize event have been read and
\* handled; the startup write is still the only send.
C18_Witness ==
    /\ pc = "poll"
    /\ keys = <<KeyEvent("F1", 0, {}), OtherEvent("Resize")>>
    /\ Len(tasks) = 1
    /\ exit_code = NotExited

\* The writes of send task i that reached the transport.
WritesOf(i) == {k \in 1..Len(wire) : wire[k] = i}

\* C19: every send is one write call carrying the whole byte sequence of its
\* key event: no send task has more than one write at the transport, a task
\* has one exactly when its write returned Ok, and what each write carried
\* is the complete encoding of the event of its task (the three bytes of the
\* arrow together), so the transport sees whole sequences in some order,
\* never their bytes interleaved.
C19_OneWritePerKeystroke ==
    /\ \A i \in 1..Len(tasks) :
          /\ Cardinality(WritesOf(i)) <= 1
          /\ (tasks[i].st = "ok") <=> (WritesOf(i) # {})
    /\ \A k \in 1..Len(wire) :
          /\ wire[k] \in 1..Len(tasks)
          /\ Transmitted[k] =
                IF wire[k] = 1 THEN <<12>>
                ELSE SessionBytes(ByteKeys[wire[k] - 1])

\* C19 witness: with the writes of the startup byte, of "a" and of the
\* arrow all performed, the arrow's before that of "a", the transport got
\* the arrow's three bytes in one write.
C19_Witness ==
    /\ Len(wire) = 3
    /\ Transmitted = << <<12>>, <<27, 91, 68>>, <<97>> >>
    /\ keys = <<KeyEvent("Char", 97, {}), KeyEvent("Left", 0, {"CONTROL"})>>

\* C20 as stated: from the start of Teardown to the exit of the process,
\* nothing is written to the display.
C20_AsStated ==
    [][(pc \in TeardownPcs) => (display' = display)]_vars

====
